---- MODULE Spec2Model ----
(***************************************************************************)
(* Model of the kidney MLOps glue code:                                    *)
(*   src/src/pipeline.py                 the Prefect tasks and flows       *)
(*   src/src/monitoring/drift_detection.py  the Evidently report glue      *)
(* One run of one entry point is one behaviour: Init chooses the entry     *)
(* point, its arguments and the behaviour of the external collaborators    *)
(* (delegates, CSV file, report library); the actions are the steps of the *)
(* entry point's body.                                                     *)
(***************************************************************************)
EXTENDS Integers, Sequences, FiniteSets, TLC

VARIABLES
    entry,          \* the entry point this run executes
    toggles,        \* kidney_ml_pipeline's three boolean arguments
    fails,          \* per delegate: how many of its first invocations raise
    shaped,         \* whether preprocess() returns four objects with .shape
    pc,             \* position in the entry point's body
    attempt,        \* number of the task-run attempt in progress (0: none)
    calls,          \* per delegate: invocations so far
    log,            \* the delegate invocations in order: what the delegate
                    \* did and whether the attempt of the task body raised
    results,        \* kidney_ml_pipeline's local `results`
    returned,       \* the value the flow returned (<<>> until it returns)
    raised,         \* the step whose error left the flow ("none" if none)
    args,           \* the datasets the caller passed (None where defaulted)
    raw_csv,        \* what pd.read_csv of the raw data gives (None: it raises)
    reference_data, \* the parameter/local reference_data
    current_data,   \* the parameter/local current_data
    metric_results, \* report_dict["metric_results"] once the report has run
    combined,       \* generate_full_monitoring_report's local `results`
    invoked,        \* the report generators invoked, in order
    files,          \* the paths written so far
    json_file,      \* the parsed content of monitoring_summary.json
    printed         \* the three values the entry point displays

pipevars == <<toggles, fails, shaped, attempt, calls, log, results>>
monvars == <<args, raw_csv, reference_data, current_data, metric_results,
             combined, invoked, files, json_file, printed>>
vars == <<entry, pc, returned, raised, pipevars, monvars>>

----------------------------------------------------------------------------
(* Bounds *)

\* delegates raise on at most this many of their first invocations
MaxFails == 3

----------------------------------------------------------------------------
(* pipeline.py: tasks *)

Steps == {"preprocess", "train", "evaluate"}

\* @task(name="preprocess_data", retries=2, retry_delay_seconds=10)
PreprocessRetries == 2
\* @task(name="train_model", retries=1)
TrainRetries == 1
\* @task(name="evaluate_model"): no retries argument
EvaluateRetries == 0

\* variant: one attempt more than declared
RetriesOneMore(step) ==
    CASE step = "preprocess" -> PreprocessRetries + 1
      [] step = "train"      -> TrainRetries + 1
      [] step = "evaluate"   -> EvaluateRetries + 1

\* the retries each task declares in its decorator
Retries(step) ==
    CASE step = "preprocess" -> PreprocessRetries
      [] step = "train"      -> TrainRetries
      [] step = "evaluate"   -> EvaluateRetries

\* variant: training and evaluation flags exchanged
ResultKeySwapped(step) ==
    CASE step = "preprocess" -> "preprocessing"
      [] step = "train"      -> "evaluation"
      [] step = "evaluate"   -> "training"

\* the key of `results` each step sets
ResultKey(step) ==
    CASE step = "preprocess" -> "preprocessing"
      [] step = "train"      -> "training"
      [] step = "evaluate"   -> "evaluation"

ToggleOf(step) ==
    CASE step = "preprocess" -> toggles.run_preprocessing
      [] step = "train"      -> toggles.run_training
      [] step = "evaluate"   -> toggles.run_evaluation

\* what the n-th invocation of a step's delegate does
DelegateOutcome(step, n) ==
    IF n <= fails[step] THEN "raise" ELSE "return"

\* whether the n-th attempt of the task body raises: the delegate raises, or
\* (preprocess_task only) the returned value cannot be unpacked into four
\* objects with a .shape for the log line
AttemptRaises(step, n) ==
    \/ DelegateOutcome(step, n) = "raise"
    \/ step = "preprocess" /\ ~shaped

----------------------------------------------------------------------------
(* pipeline.py: flows *)

\* the monitoring script takes no part in a pipeline run
MonitoringIdle ==
    /\ args = [current_data |-> <<>>, reference_data |-> <<>>]
    /\ raw_csv = <<>>
    /\ reference_data = <<>>
    /\ current_data = <<>>
    /\ metric_results = <<>>
    /\ combined = <<>>
    /\ invoked = <<>>
    /\ files = {}
    /\ json_file = <<>>
    /\ printed = <<>>

Flows == {"kidney_ml_pipeline", "training_pipeline"}

At(where, step) == [at |-> where, step |-> step]

\* the first statement of each flow body that concerns a step
FlowStart(e) ==
    IF e = "kidney_ml_pipeline" THEN At("if", "preprocess") ELSE At("if", "train")

\* variant: the evaluate block placed before the train block
AfterStepSwapped(step) ==
    CASE step = "preprocess" -> At("if", "evaluate")
      [] step = "evaluate"   -> At("if", "train")
      [] step = "train"      -> At("return", "none")

\* the statement that follows a step's block in the flow body
AfterStep(step) ==
    CASE step = "preprocess" -> At("if", "train")
      [] step = "train"      -> At("if", "evaluate")
      [] step = "evaluate"   -> At("return", "none")

\* variants: no flow tests a toggle; every flow tests the toggles
StepRunsIgnoresToggle(step) == TRUE

StepRunsReadsToggle(step) == ToggleOf(step)

\* whether the flow calls the step's task when it reaches the step's block:
\* kidney_ml_pipeline tests the toggle, training_pipeline calls unconditionally
StepRuns(step) ==
    IF entry = "kidney_ml_pipeline" THEN ToggleOf(step) ELSE TRUE

NoResults == [k \in {"preprocessing", "training", "evaluation"} |-> FALSE]

\* `if run_x:` is true (or training_pipeline's unconditional call): the task
\* run starts with its first attempt
CallTask(step) ==
    /\ entry \in Flows
    /\ pc = At("if", step)
    /\ StepRuns(step)
    /\ pc' = At("task", step)
    /\ attempt' = 1
    /\ UNCHANGED <<entry, toggles, fails, shaped, calls, log, results,
                   returned, raised, monvars>>

\* `if run_x:` is false: the block is skipped
SkipStep(step) ==
    /\ entry \in Flows
    /\ pc = At("if", step)
    /\ ~StepRuns(step)
    /\ pc' = AfterStep(step)
    /\ UNCHANGED <<entry, toggles, fails, shaped, attempt, calls, log,
                   results, returned, raised, monvars>>

Invoked(step) ==
    /\ calls' = [calls EXCEPT ![step] = @ + 1]
    /\ log' = Append(log, [step |-> step,
                           outcome |-> DelegateOutcome(step, calls[step] + 1),
                           failed |-> AttemptRaises(step, calls[step] + 1)])

\* an attempt of the task body returns: the task run completes and the flow
\* goes on (kidney_ml_pipeline sets results[...] = True)
AttemptSucceeds(step) ==
    /\ pc = At("task", step)
    /\ ~AttemptRaises(step, calls[step] + 1)
    /\ Invoked(step)
    /\ results' = IF entry = "kidney_ml_pipeline"
                  THEN [results EXCEPT ![ResultKey(step)] = TRUE]
                  ELSE results
    /\ pc' = AfterStep(step)
    /\ attempt' = 0
    /\ UNCHANGED <<entry, toggles, fails, shaped, returned, raised, monvars>>

\* variant: the retry count compared off by one
AttemptRetriesOffByOne(step) ==
    /\ pc = At("task", step)
    /\ AttemptRaises(step, calls[step] + 1)
    /\ attempt <= Retries(step) + 1
    /\ Invoked(step)
    /\ attempt' = attempt + 1
    /\ UNCHANGED <<entry, toggles, fails, shaped, pc, results, returned,
                   raised, monvars>>

\* an attempt raises and the retry policy allows another one
AttemptRetries(step) ==
    /\ pc = At("task", step)
    /\ AttemptRaises(step, calls[step] + 1)
    /\ attempt <= Retries(step)
    /\ Invoked(step)
    /\ attempt' = attempt + 1
    /\ UNCHANGED <<entry, toggles, fails, shaped, pc, results, returned,
                   raised, monvars>>

\* variant: the task's exception is swallowed and the flow goes on
AttemptExhaustedSwallowed(step) ==
    /\ pc = At("task", step)
    /\ AttemptRaises(step, calls[step] + 1)
    /\ attempt > Retries(step)
    /\ Invoked(step)
    /\ pc' = AfterStep(step)
    /\ raised' = step
    /\ attempt' = 0
    /\ UNCHANGED <<entry, toggles, fails, shaped, results, returned, monvars>>

\* an attempt raises and the retries are used up: the task run fails and its
\* exception leaves the flow function
AttemptExhausted(step) ==
    /\ pc = At("task", step)
    /\ AttemptRaises(step, calls[step] + 1)
    /\ attempt > Retries(step)
    /\ Invoked(step)
    /\ pc' = At("raised", step)
    /\ raised' = step
    /\ attempt' = 0
    /\ UNCHANGED <<entry, toggles, fails, shaped, results, returned, monvars>>

\* kidney_ml_pipeline: `return results`
FlowReturn ==
    /\ entry = "kidney_ml_pipeline"
    /\ pc = At("return", "none")
    /\ returned' = <<results>>
    /\ pc' = At("done", "none")
    /\ UNCHANGED <<entry, toggles, fails, shaped, attempt, calls, log,
                   results, raised, monvars>>

\* training_pipeline: the body ends, the flow returns None
TrainingPipelineEnd ==
    /\ entry = "training_pipeline"
    /\ pc = At("return", "none")
    /\ pc' = At("done", "none")
    /\ UNCHANGED <<entry, toggles, fails, shaped, attempt, calls, log,
                   results, returned, raised, monvars>>

InitPipeline ==
    /\ entry \in Flows
    /\ toggles \in [run_preprocessing : BOOLEAN, run_training : BOOLEAN,
                    run_evaluation : BOOLEAN]
    /\ entry = "training_pipeline" =>
           toggles = [run_preprocessing |-> FALSE, run_training |-> FALSE,
                      run_evaluation |-> FALSE]
    /\ fails \in [Steps -> 0..MaxFails]
    /\ shaped \in BOOLEAN
    /\ pc = FlowStart(entry)
    /\ attempt = 0
    /\ calls = [s \in Steps |-> 0]
    /\ log = <<>>
    /\ results = NoResults
    /\ returned = <<>>
    /\ raised = "none"
    /\ MonitoringIdle

NextPipeline ==
    \/ \E step \in Steps : CallTask(step)
    \/ \E step \in Steps : SkipStep(step)
    \/ \E step \in Steps : AttemptSucceeds(step)
    \/ \E step \in Steps : AttemptRetries(step)
    \/ \E step \in Steps : AttemptExhausted(step)
    \/ FlowReturn
    \/ TrainingPipelineEnd

----------------------------------------------------------------------------
(* Python values, strings and JSON *)

\* a Python value is tagged with its type; a str is a sequence of tokens
PyBool(b)  == [t |-> "bool",  v |-> b]
PyInt(n)   == [t |-> "int",   v |-> n]
PyFloat(x) == [t |-> "float", v |-> x]    \* x in hundredths
PyStr(s)   == [t |-> "str",   v |-> s]
PyDict(f)  == [t |-> "dict",  v |-> f]

EmptyDict == [k \in {} |-> PyInt(0)]

\* d.get(k, default)
Get(d, k, default) == IF k \in DOMAIN d THEN d[k] ELSE default

\* Python's `needle in hay` on strings
Contains(hay, needle) ==
    \E i \in 1..(Len(hay) - Len(needle) + 1) :
        SubSeq(hay, i, i + Len(needle) - 1) = needle

\* str(value) of a scalar: the repr of a str is quoted
ReprScalar(x) ==
    CASE x.t = "bool"  -> IF x.v THEN <<"True">> ELSE <<"False">>
      [] x.t = "int"   -> <<"int">>
      [] x.t = "float" -> <<"float">>
      [] x.t = "str"   -> <<"'">> \o x.v \o <<"'">>

RECURSIVE ReprItems(_, _)
ReprItems(d, keys) ==
    IF keys = {} THEN <<>>
    ELSE LET k == CHOOSE x \in keys : TRUE
         IN  <<"'">> \o k \o <<"': ">> \o ReprScalar(d[k]) \o <<", ">>
             \o ReprItems(d, keys \ {k})

\* str(d) of a dict of scalars: "{'key': value, ...}"
StrDict(d) == <<"{">> \o ReprItems(d, DOMAIN d) \o <<"}">>

\* json.dump followed by a parse: the JSON value a Python value becomes
RECURSIVE JsonDump(_)
JsonDump(x) ==
    CASE x.t = "bool"  -> [j |-> "boolean", v |-> x.v]
      [] x.t = "int"   -> [j |-> "number",  v |-> x.v]
      [] x.t = "float" -> [j |-> "number",  v |-> x.v]
      [] x.t = "str"   -> [j |-> "string",  v |-> x.v]
      [] x.t = "dict"  -> [j |-> "object",
                           v |-> [k \in DOMAIN x.v |-> JsonDump(x.v[k])]]

----------------------------------------------------------------------------
(* drift_detection.py *)

\* rows of the largest dataset
MaxRows == 5
\* metric results in one report
MaxMetrics == 2

\* a DataFrame is its row count and whether its numeric columns were scaled
\* by 1.05; an argument is <<>> (None) or <<DataFrame>>
DataFrame(n, shifted) == [rows |-> n, shifted |-> shifted]
None == <<>>
DataFrames == {DataFrame(n, FALSE) : n \in 0..MaxRows}
OptDataFrames == {None} \cup {<<df>> : df \in DataFrames}

\* round(), which rounds halves to even, of tenths/10
Round(tenths) ==
    LET q == tenths \div 10
        r == tenths % 10
    IN  IF r < 5 THEN q
        ELSE IF r > 5 THEN q + 1
        ELSE IF q % 2 = 0 THEN q ELSE q + 1

\* reference_data.sample(frac=0.3, random_state=42).copy(), then every numeric
\* column * 1.05
SynthesizeCurrent(reference) == DataFrame(Round(3 * reference.rows), TRUE)

\* the strings the extraction looks for
DatasetDrift == <<"Dataset", "Drift">>
dataset_drift == <<"dataset_", "drift">>
drift_share == <<"drift", "_share">>
number_of_drifted_columns == <<"number_of_", "drift", "ed_columns">>

\* the result payloads a report's metric may carry
ResultFull == (dataset_drift :> PyBool(TRUE)) @@ (drift_share :> PyFloat(50))
              @@ (number_of_drifted_columns :> PyInt(2))
ResultNoFlag == (drift_share :> PyFloat(50))
                @@ (number_of_drifted_columns :> PyInt(2))
ResultNote == (<<"note">> :> PyStr(<<"no ", "dataset_", "drift", " computed">>))
ResultChoices == {ResultFull, ResultNoFlag, ResultNote, EmptyDict}

MetricIds == {<<"Dataset", "Drift", "Metric">>, <<"Column", "Drift", "Metric">>}

\* an entry of report_dict["metric_results"]: a dict that may lack its keys
Metrics ==
    {("metric" :> PyStr(id)) @@ ("result" :> PyDict(r)) :
        id \in MetricIds, r \in ResultChoices}
    \cup {[k \in {} |-> PyInt(0)]}

RECURSIVE SeqsUpTo(_, _)
SeqsUpTo(S, n) ==
    IF n = 0 THEN {<<>>}
    ELSE LET shorter == SeqsUpTo(S, n - 1)
         IN  shorter \cup {Append(q, x) : q \in {p \in shorter : Len(p) = n - 1},
                                           x \in S}

MetricLists == SeqsUpTo(Metrics, MaxMetrics)

\* the test of line 124
MentionsDatasetDrift(metric) ==
    LET metric_id == Get(metric, "metric", PyStr(<<>>)).v
        result == Get(metric, "result", PyDict(EmptyDict)).v
    IN  \/ Contains(metric_id, DatasetDrift)
        \/ Contains(StrDict(result), dataset_drift)

\* variant: the first matching metric wins instead of the last
ExtractMetricKeepsFirst(summary, metric) ==
    LET result == Get(metric, "result", PyDict(EmptyDict)).v
    IN  IF MentionsDatasetDrift(metric) /\ "dataset_drift" \notin DOMAIN summary
        THEN ("dataset_drift" :> Get(result, dataset_drift, PyBool(FALSE)))
             @@ ("drift_share" :> Get(result, drift_share, PyFloat(0)))
             @@ ("number_of_drifted_columns" :>
                     Get(result, number_of_drifted_columns, PyInt(0)))
             @@ summary
        ELSE summary

\* one iteration of the loop over metric_results (lines 120-127)
ExtractMetric(summary, metric) ==
    LET result == Get(metric, "result", PyDict(EmptyDict)).v
    IN  IF MentionsDatasetDrift(metric)
        THEN ("dataset_drift" :> Get(result, dataset_drift, PyBool(FALSE)))
             @@ ("drift_share" :> Get(result, drift_share, PyFloat(0)))
             @@ ("number_of_drifted_columns" :>
                     Get(result, number_of_drifted_columns, PyInt(0)))
             @@ summary
        ELSE summary

RECURSIVE ExtractAll(_, _)
ExtractAll(summary, ms) ==
    IF ms = <<>> THEN summary
    ELSE ExtractAll(ExtractMetric(summary, Head(ms)), Tail(ms))

\* variant: the two sample counts exchanged
BaseSummarySwapped(reference, current, path) ==
    ("timestamp" :> PyStr(<<"now">>))
    @@ ("reference_samples" :> PyInt(current.rows))
    @@ ("current_samples" :> PyInt(reference.rows))
    @@ ("report_path" :> PyStr(path))

\* the summary dict of lines 111-116
BaseSummary(reference, current, path) ==
    ("timestamp" :> PyStr(<<"now">>))
    @@ ("reference_samples" :> PyInt(reference.rows))
    @@ ("current_samples" :> PyInt(current.rows))
    @@ ("report_path" :> PyStr(path))

\* the summary generate_drift_report returns when nothing raises
DriftSummary(reference, current, path, ms) ==
    ExtractAll(BaseSummary(reference, current, path), ms)

\* the dict generate_data_summary_report returns
DataSummary(data, path) ==
    ("timestamp" :> PyStr(<<"now">>))
    @@ ("samples" :> PyInt(data.rows))
    @@ ("report_path" :> PyStr(path))

DriftReportPath == <<"reports/", "drift_report.html">>
DataSummaryPath == <<"reports/", "data_summary_report.html">>
MonitoringSummaryPath == <<"reports/", "monitoring_summary.json">>

----------------------------------------------------------------------------
(* drift_detection.py: the report generators and the orchestrator *)

Monitors == {"generate_full_monitoring_report", "generate_drift_report", "__main__"}
Orchestrated == entry \in {"generate_full_monitoring_report", "__main__"}

\* the pipeline takes no part in a monitoring run
PipelineIdle ==
    /\ toggles = [run_preprocessing |-> FALSE, run_training |-> FALSE,
                  run_evaluation |-> FALSE]
    /\ fails = [s \in Steps |-> 0]
    /\ shaped = TRUE
    /\ attempt = 0
    /\ calls = [s \in Steps |-> 0]
    /\ log = <<>>
    /\ results = NoResults

\* the value `x if x is not None else load_reference_data()` would have;
\* None when load_reference_data raises
OrLoaded(reference) == IF reference = None THEN raw_csv ELSE reference

\* generate_full_monitoring_report, lines 200-213, when the CSV loads (or is
\* not needed): both datasets are resolved and `results` gets its timestamp
ResolveData ==
    /\ Orchestrated
    /\ pc = At("resolve", "none")
    /\ OrLoaded(reference_data) # None
    /\ reference_data' = OrLoaded(reference_data)
    /\ current_data' = IF current_data = None
                       THEN <<SynthesizeCurrent(OrLoaded(reference_data)[1])>>
                       ELSE current_data
    /\ combined' = ("timestamp" :> PyStr(<<"now">>))
    /\ pc' = At("call", "drift")
    /\ UNCHANGED <<entry, returned, raised, pipevars, args, raw_csv,
                   metric_results, invoked, files, json_file, printed>>

\* generate_full_monitoring_report, line 201: load_reference_data raises
ResolveRaises ==
    /\ Orchestrated
    /\ pc = At("resolve", "none")
    /\ OrLoaded(reference_data) = None
    /\ pc' = At("raised", "load")
    /\ raised' = "load_reference_data"
    /\ UNCHANGED <<entry, returned, pipevars, monvars>>

\* generate_drift_report runs to its return statement: called by the
\* orchestrator (lines 217-218) or directly by a caller
DriftReportReturns ==
    /\ entry \in Monitors
    /\ pc = At("call", "drift")
    /\ OrLoaded(reference_data) # None
    /\ \E ms \in MetricLists :
        LET reference == OrLoaded(reference_data)[1]
            current == IF current_data = None
                       THEN SynthesizeCurrent(reference)
                       ELSE current_data[1]
            summary == DriftSummary(reference, current, DriftReportPath, ms)
        IN  /\ metric_results' = <<ms>>
            /\ files' = files \cup {DriftReportPath}
            /\ invoked' = Append(invoked, "generate_drift_report")
            /\ IF Orchestrated
               THEN /\ combined' = ("data_drift" :> PyDict(summary)) @@ combined
                    /\ pc' = At("call", "summary")
                    /\ UNCHANGED <<returned, reference_data, current_data>>
               ELSE /\ returned' = <<summary>>
                    /\ pc' = At("done", "none")
                    /\ reference_data' = <<reference>>
                    /\ current_data' = <<current>>
                    /\ UNCHANGED combined
    /\ UNCHANGED <<entry, raised, pipevars, args, raw_csv, json_file, printed>>

\* generate_drift_report raises: the CSV does not load, or the report library
\* raises while building, running or saving the report
DriftReportRaises ==
    /\ entry \in Monitors
    /\ pc = At("call", "drift")
    /\ invoked' = Append(invoked, "generate_drift_report")
    /\ pc' = At("raised", "drift")
    /\ raised' = "generate_drift_report"
    /\ UNCHANGED <<entry, returned, pipevars, args, raw_csv, reference_data,
                   current_data, metric_results, combined, files, json_file,
                   printed>>

\* generate_data_summary_report(current_data) returns (lines 222-223)
DataSummaryReturns ==
    /\ Orchestrated
    /\ pc = At("call", "summary")
    /\ files' = files \cup {DataSummaryPath}
    /\ invoked' = Append(invoked, "generate_data_summary_report")
    /\ combined' = ("data_summary" :>
                       PyDict(DataSummary(current_data[1], DataSummaryPath)))
                   @@ combined
    /\ pc' = At("write", "none")
    /\ UNCHANGED <<entry, returned, raised, pipevars, args, raw_csv,
                   reference_data, current_data, metric_results, json_file,
                   printed>>

\* variant: the exception is swallowed and the orchestrator goes on
DataSummaryRaisesSwallowed ==
    /\ Orchestrated
    /\ pc = At("call", "summary")
    /\ invoked' = Append(invoked, "generate_data_summary_report")
    /\ pc' = At("write", "none")
    /\ raised' = "generate_data_summary_report"
    /\ UNCHANGED <<entry, returned, pipevars, args, raw_csv, reference_data,
                   current_data, metric_results, combined, files, json_file,
                   printed>>

\* generate_data_summary_report raises (the report library raises)
DataSummaryRaises ==
    /\ Orchestrated
    /\ pc = At("call", "summary")
    /\ invoked' = Append(invoked, "generate_data_summary_report")
    /\ pc' = At("raised", "summary")
    /\ raised' = "generate_data_summary_report"
    /\ UNCHANGED <<entry, returned, pipevars, args, raw_csv, reference_data,
                   current_data, metric_results, combined, files, json_file,
                   printed>>

\* lines 226-236: the combined summary is dumped and returned
WriteSummary ==
    /\ Orchestrated
    /\ pc = At("write", "none")
    /\ files' = files \cup {MonitoringSummaryPath}
    /\ json_file' = <<JsonDump(PyDict(combined))>>
    /\ returned' = <<combined>>
    /\ pc' = IF entry = "__main__" THEN At("print", "none") ELSE At("done", "none")
    /\ UNCHANGED <<entry, raised, pipevars, args, raw_csv, reference_data,
                   current_data, metric_results, combined, invoked, printed>>

\* summary.get('data_drift', {}).get(field, 'N/A')
Displayed(summary, field) ==
    Get(Get(summary, "data_drift", PyDict(EmptyDict)).v, field, PyStr(<<"N/A">>))

\* __main__, lines 243-246
MainPrint ==
    /\ entry = "__main__"
    /\ pc = At("print", "none")
    /\ printed' = <<Displayed(returned[1], "dataset_drift"),
                    Displayed(returned[1], "drift_share"),
                    Displayed(returned[1], "number_of_drifted_columns")>>
    /\ pc' = At("done", "none")
    /\ UNCHANGED <<entry, returned, raised, pipevars, args, raw_csv,
                   reference_data, current_data, metric_results, combined,
                   invoked, files, json_file>>

InitMonitoring ==
    /\ entry \in Monitors
    /\ args \in [current_data : OptDataFrames, reference_data : OptDataFrames]
    /\ entry = "__main__" => args = [current_data |-> None, reference_data |-> None]
    /\ raw_csv \in OptDataFrames
    /\ args.reference_data # None => raw_csv = None
    /\ reference_data = args.reference_data
    /\ current_data = args.current_data
    /\ metric_results = <<>>
    /\ combined = <<>>
    /\ invoked = <<>>
    /\ files = {}
    /\ json_file = <<>>
    /\ printed = <<>>
    /\ pc = IF entry = "generate_drift_report"
            THEN At("call", "drift") ELSE At("resolve", "none")
    /\ returned = <<>>
    /\ raised = "none"
    /\ PipelineIdle

NextMonitoring ==
    \/ ResolveData
    \/ ResolveRaises
    \/ DriftReportReturns
    \/ DriftReportRaises
    \/ DataSummaryReturns
    \/ DataSummaryRaises
    \/ WriteSummary
    \/ MainPrint

----------------------------------------------------------------------------
(* Specifications: one run of a pipeline flow, one run of the monitoring *)

SpecPipeline == InitPipeline /\ [][NextPipeline]_vars
SpecMonitoring == InitMonitoring /\ [][NextMonitoring]_vars

----------------------------------------------------------------------------
(* Properties of the pipeline flows, checked under SpecPipeline *)

Order(step) ==
    CASE step = "preprocess" -> 1 [] step = "train" -> 2 [] step = "evaluate" -> 3

Kidney == entry = "kidney_ml_pipeline"
Finished == pc.at \in {"done", "raised"}

\* the positions in log of a step's delegate invocations
InvocationsOf(step) == {i \in 1..Len(log) : log[i].step = step}

\* the step's task run has completed successfully
Completed(step) ==
    /\ \E i \in InvocationsOf(step) : ~log[i].failed
    /\ pc # At("task", step)

\* the step's delegate raised on every attempt its retry policy allows
DelegateAlwaysRaised(step) ==
    /\ calls[step] = Retries(step) + 1
    /\ \A i \in InvocationsOf(step) : log[i].outcome = "raise"

\* C1: in kidney_ml_pipeline, whatever the toggles, an enabled step whose
\* delegate raised on every attempt its retry policy allows has failed; and once
\* a step has failed the flow has left with that step's error: it can take no
\* further step, no delegate of a later step was invoked, and no status mapping
\* was returned.
C1_FailureAbortsFlow ==
    Kidney =>
        \A s \in Steps :
            /\ (ToggleOf(s) /\ DelegateAlwaysRaised(s)) => raised = s
            /\ raised = s =>
                  /\ pc = At("raised", s)
                  /\ returned = <<>>
                  /\ \A later \in Steps : Order(later) > Order(s) => calls[later] = 0
                  /\ ~ENABLED NextPipeline

C1_Witness ==
    /\ Kidney
    /\ toggles.run_preprocessing /\ toggles.run_training /\ toggles.run_evaluation
    /\ DelegateAlwaysRaised("train")
    /\ raised = "train"

\* C2: the train delegate is invoked at most twice per run; when it raises on
\* its first and second invocations the train task has failed after the second
\* one and the run can go no further, also when a third invocation would have
\* returned.
C2_TrainTwoAttempts ==
    /\ calls["train"] <= 2
    /\ (fails["train"] >= 2 /\ calls["train"] = 2) =>
           /\ raised = "train"
           /\ pc = At("raised", "train")
           /\ ~ENABLED NextPipeline

C2_Witness ==
    /\ fails["train"] = 2
    /\ DelegateOutcome("train", 3) = "return"
    /\ calls["train"] = 2
    /\ raised = "train"

\* C3: in kidney_ml_pipeline, whatever the toggles, the delegates are invoked
\* in the order preprocess, train, evaluate; a step's delegate is invoked only
\* when every enabled earlier step has completed successfully; with
\* preprocessing disabled the preprocess delegate is never invoked, and an
\* enabled train or evaluate step still runs (a finished run with no failure
\* has invoked it).
C3_FixedOrder ==
    Kidney =>
        /\ \A i, j \in 1..Len(log) : i < j => Order(log[i].step) <= Order(log[j].step)
        /\ \A s, e \in Steps :
              (calls[s] > 0 /\ Order(e) < Order(s) /\ ToggleOf(e)) => Completed(e)
        /\ ~toggles.run_preprocessing => calls["preprocess"] = 0
        /\ \A s \in Steps :
              (pc = At("done", "none") /\ ToggleOf(s)) => calls[s] > 0

C3_Witness ==
    /\ Kidney
    /\ ~toggles.run_preprocessing /\ toggles.run_training /\ toggles.run_evaluation
    /\ fails["train"] = 1
    /\ pc = At("done", "none")
    /\ calls = [s \in Steps |-> IF s = "preprocess" THEN 0
                                ELSE IF s = "train" THEN 2 ELSE 1]

\* C4: in kidney_ml_pipeline, whatever the toggles, the delegate of a step
\* whose toggle is false is never invoked; the returned status mapping has a
\* step's flag true exactly when the step's toggle was true and the step
\* completed successfully; with all three toggles false the mapping is all
\* false and nothing was invoked.
C4_StatusMapping ==
    Kidney =>
        /\ \A s \in Steps : ~ToggleOf(s) => calls[s] = 0
        /\ returned # <<>> =>
              /\ \A s \in Steps :
                    returned[1][CASE s = "preprocess" -> "preprocessing"
                                  [] s = "train"      -> "training"
                                  [] s = "evaluate"   -> "evaluation"]
                        = (ToggleOf(s) /\ Completed(s))
              /\ (\A s \in Steps : ~ToggleOf(s)) =>
                    /\ returned[1] = NoResults
                    /\ log = <<>>

C4_Witness ==
    /\ Kidney
    /\ returned # <<>>
    /\ toggles.run_preprocessing /\ ~toggles.run_training /\ toggles.run_evaluation
    /\ returned[1] = [preprocessing |-> TRUE, training |-> FALSE, evaluation |-> TRUE]

OnlyTraining ==
    /\ Kidney
    /\ ~toggles.run_preprocessing /\ toggles.run_training /\ ~toggles.run_evaluation

\* C5 as stated: a kidney_ml_pipeline run with only training enabled that
\* has returned has invoked the train delegate exactly once and the others
\* never.
C5_Original ==
    (OnlyTraining /\ pc = At("done", "none")) =>
        calls = [s \in Steps |-> IF s = "train" THEN 1 ELSE 0]

\* C5 amended: a finished kidney_ml_pipeline run with only training enabled
\* has invoked the train delegate once when its first invocation returned and
\* twice when its first invocation raised, and the preprocess and evaluate
\* delegates never.
C5_TrainOnceOrTwice ==
    (OnlyTraining /\ Finished) =>
        /\ calls["train"] = IF fails["train"] = 0 THEN 1 ELSE 2
        /\ calls["preprocess"] = 0
        /\ calls["evaluate"] = 0

C5_Witness ==
    /\ OnlyTraining
    /\ pc = At("done", "none")
    /\ calls["train"] = 2
    /\ returned # <<>>

\* the step's task was called and its run is over
TaskOver(step) == calls[step] > 0 /\ pc # At("task", step)

\* C6: per task call the preprocess delegate is invoked at most 3 times and
\* the evaluate delegate exactly once; for every step, an attempt that is not
\* the first follows an attempt that raised, and an attempt that does not
\* raise is the last one and completes the step.
C6_RetryPolicy ==
    /\ calls["preprocess"] <= 3
    /\ calls["evaluate"] <= 1
    /\ TaskOver("evaluate") => calls["evaluate"] = 1
    /\ \A s \in Steps :
          \A i \in InvocationsOf(s) :
              /\ (\E j \in InvocationsOf(s) : i < j) => log[i].failed
              /\ ~log[i].failed =>
                    /\ \A j \in InvocationsOf(s) : j <= i
                    /\ pc # At("task", s)
                    /\ raised # s

C6_Witness ==
    /\ calls["preprocess"] = 3
    /\ Completed("preprocess")
    /\ TaskOver("evaluate")

Training == entry = "training_pipeline"

\* C7: training_pipeline never invokes the preprocess delegate; it invokes
\* the evaluate delegate only when the train step has completed successfully;
\* when the train step has failed the run is over and evaluate was never
\* invoked; and a run that ends normally has run train and then evaluate,
\* whatever the toggles of the other flow would say.
C7_TrainingOnly ==
    Training =>
        /\ calls["preprocess"] = 0
        /\ calls["evaluate"] > 0 => Completed("train")
        /\ \A i, j \in 1..Len(log) : i < j => Order(log[i].step) <= Order(log[j].step)
        /\ raised = "train" =>
              /\ calls["evaluate"] = 0
              /\ calls["train"] = 2
              /\ ~ENABLED NextPipeline
        /\ pc = At("done", "none") =>
              /\ Completed("train")
              /\ Completed("evaluate")

C7_Witness ==
    /\ Training
    /\ pc = At("done", "none")
    /\ calls["train"] = 2
    /\ calls["evaluate"] = 1

----------------------------------------------------------------------------
(* Properties of the monitoring script, checked under SpecMonitoring *)

BothReports == <<"generate_drift_report", "generate_data_summary_report">>

\* C8: generate_full_monitoring_report invokes the drift report generator and
\* then the data-summary report generator, each at most once; when a step has
\* raised, the run is over with nothing returned, no later report step was
\* invoked and monitoring_summary.json is not written; the JSON file is
\* written only when both report steps have returned.
C8_ReportSequence ==
    Orchestrated =>
        /\ \E n \in 0..2 : invoked = SubSeq(BothReports, 1, n)
        /\ raised # "none" =>
              /\ pc.at = "raised"
              /\ returned = <<>>
              /\ json_file = <<>>
              /\ MonitoringSummaryPath \notin files
              /\ ~ENABLED NextMonitoring
        /\ raised = "load_reference_data" => invoked = <<>>
        /\ raised = "generate_drift_report" => invoked = SubSeq(BothReports, 1, 1)
        /\ (MonitoringSummaryPath \in files \/ json_file # <<>>) =>
              /\ invoked = BothReports
              /\ raised = "none"
              /\ {DriftReportPath, DataSummaryPath} \subseteq files
              /\ {"data_drift", "data_summary"} \subseteq DOMAIN combined

C8_Witness ==
    /\ Orchestrated
    /\ raised = "generate_data_summary_report"
    /\ invoked = BothReports
    /\ DriftReportPath \in files
    /\ MonitoringSummaryPath \notin files

DriftFields == {"dataset_drift", "drift_share", "number_of_drifted_columns"}

\* generate_drift_report has returned a summary
DriftReturned == metric_results # <<>>
TheDriftSummary == IF Orchestrated THEN combined["data_drift"].v ELSE returned[1]

\* of the metric results a report may carry here, those that mention dataset
\* drift: the identifier is DatasetDriftMetric, or the payload has the key
\* dataset_drift or a note that quotes it
Matching(metric) ==
    \/ /\ "metric" \in DOMAIN metric
       /\ metric["metric"].v = <<"Dataset", "Drift", "Metric">>
    \/ /\ "result" \in DOMAIN metric
       /\ \/ dataset_drift \in DOMAIN metric["result"].v
          \/ <<"note">> \in DOMAIN metric["result"].v

Defaults ==
    [dataset_drift |-> PyBool(FALSE), drift_share |-> PyFloat(0),
     number_of_drifted_columns |-> PyInt(0)]

ResultField(field) ==
    CASE field = "dataset_drift" -> dataset_drift
      [] field = "drift_share" -> drift_share
      [] field = "number_of_drifted_columns" -> number_of_drifted_columns

\* C9 as stated: the returned summary always has the three drift fields, and
\* they are the defaults when no metric result mentions dataset drift.
C9_Original ==
    DriftReturned =>
        /\ DriftFields \subseteq DOMAIN TheDriftSummary
        /\ (\A i \in 1..Len(metric_results[1]) : ~Matching(metric_results[1][i])) =>
              \A f \in DriftFields : TheDriftSummary[f] = Defaults[f]

\* C9 amended: the returned summary has the three drift fields exactly when
\* some metric result mentions dataset drift; each field is then the one the
\* last such metric's result provides, or its default (false, 0.0, 0) when that
\* result lacks it. When no metric result mentions dataset drift the summary
\* has none of the three fields, and the entry point displays N/A for them.
C9_DriftFields ==
    DriftReturned =>
        LET ms == metric_results[1]
            matches == {i \in 1..Len(ms) : Matching(ms[i])}
        IN  /\ IF matches = {}
               THEN DriftFields \cap DOMAIN TheDriftSummary = {}
               ELSE LET last == CHOOSE i \in matches : \A j \in matches : j <= i
                        result == IF "result" \in DOMAIN ms[last]
                                  THEN ms[last]["result"].v ELSE EmptyDict
                    IN  /\ DriftFields \subseteq DOMAIN TheDriftSummary
                        /\ \A f \in DriftFields :
                              TheDriftSummary[f] =
                                  IF ResultField(f) \in DOMAIN result
                                  THEN result[ResultField(f)] ELSE Defaults[f]
            /\ printed # <<>> =>
                  \A n \in 1..3 :
                      LET f == <<"dataset_drift", "drift_share",
                                 "number_of_drifted_columns">>[n]
                      IN  IF matches = {}
                          THEN printed[n].t = "str" /\ printed[n].v = <<"N/A">>
                          ELSE printed[n] = TheDriftSummary[f]

C9_Witness ==
    /\ DriftReturned
    /\ Len(metric_results[1]) = 2
    /\ Matching(metric_results[1][1])
    /\ ~Matching(metric_results[1][2])
    /\ TheDriftSummary["dataset_drift"] = PyBool(FALSE)
    /\ TheDriftSummary["drift_share"] = PyFloat(50)

\* the datasets a successful orchestrator run works on
UsedReference ==
    IF args.reference_data = None THEN raw_csv[1] ELSE args.reference_data[1]

Written == json_file # <<>>
NonEmptyObject(x) == x.j = "object" /\ DOMAIN x.v # {}

\* C10 as stated: the written JSON has exactly the keys timestamp, data_drift
\* and data_summary, each a non-empty mapping, and data_drift's sample counts
\* are the row counts of the datasets used.
C10_Original ==
    Written =>
        LET top == json_file[1]
        IN  /\ top.j = "object"
            /\ DOMAIN top.v = {"timestamp", "data_drift", "data_summary"}
            /\ \A k \in DOMAIN top.v : NonEmptyObject(top.v[k])
            /\ top.v["data_drift"].v["reference_samples"].v = UsedReference.rows
            /\ top.v["data_drift"].v["current_samples"].v = current_data[1].rows

\* C10 amended: the written JSON has exactly the keys timestamp, data_drift
\* and data_summary; timestamp is a non-empty string and the other two are
\* non-empty mappings; data_drift's reference_samples is the row count of the
\* reference dataset (supplied or loaded) and its current_samples the row count
\* of the current dataset used: the supplied one, or the sample of 30% of the
\* reference rows (to the nearest whole row).
C10_SummaryFile ==
    Written =>
        LET top == json_file[1]
            drift == top.v["data_drift"]
            current == drift.v["current_samples"]
        IN  /\ top.j = "object"
            /\ DOMAIN top.v = {"timestamp", "data_drift", "data_summary"}
            /\ top.v["timestamp"].j = "string" /\ top.v["timestamp"].v # <<>>
            /\ NonEmptyObject(drift)
            /\ NonEmptyObject(top.v["data_summary"])
            /\ drift.v["reference_samples"] =
                   [j |-> "number", v |-> UsedReference.rows]
            /\ current.j = "number"
            /\ current.v = current_data[1].rows
            /\ IF args.current_data = None
               THEN /\ 10 * current.v - 3 * UsedReference.rows \in -5..5
                    /\ current_data[1].shifted
               ELSE current.v = args.current_data[1].rows

C10_Witness ==
    /\ Written
    /\ args.current_data = None
    /\ args.reference_data = None
    /\ UsedReference.rows = MaxRows
    /\ json_file[1].v["data_drift"].v["current_samples"].v < MaxRows
    /\ json_file[1].v["data_drift"].v["reference_samples"].v = MaxRows

====
